---- MODULE Spec2Model ----
(***************************************************************************)
(* Portfolio ledger, backtest orchestration and expert aggregation of the  *)
(* MoE trading system.                                                     *)
(*                                                                         *)
(* Money is counted in ticks of 1/200 dollar and prices are whole dollars  *)
(* on a 10-dollar grid: at that scale every amount the code computes       *)
(* (trade value, transaction cost 0.1%, slippage 0.05%) is an integer, so  *)
(* the float arithmetic of the source is modelled by exact arithmetic.     *)
(* Confidence is counted in tenths (8 stands for 0.8).  Fractions of the   *)
(* configuration are kept as numerator/denominator pairs.                  *)
(*                                                                         *)
(* A PortfolioState object holds its cash and total_value by value but its *)
(* positions by reference: the field records which dict object it was      *)
(* given, and Deref reads that object as it is now.                        *)
(*                                                                         *)
(* Not modelled: avg_price, unrealized_pnl, realized_pnl and last_updated  *)
(* of a position, and the reasoning / expert_outputs of a trade record;    *)
(* no behaviour of the ledger depends on them, except the division by the  *)
(* new quantity in add_quantity, which is modelled as the exception it     *)
(* raises when that quantity is zero.  Of a run, the files written by the  *)
(* loggers and the final metrics are not modelled; of an aggregation, the  *)
(* experts themselves, the reasoning text and the processing time.         *)
(***************************************************************************)
EXTENDS Integers, Sequences, FiniteSets, TLC

VARIABLES
    cash,                \* PortfolioSimulator.cash, in ticks
    positions,           \* contents of the dict object PortfolioSimulator.positions
    current_state,       \* PortfolioSimulator.current_state
    portfolio_history,   \* PortfolioSimulator.portfolio_history
    trade_history,       \* PortfolioSimulator.trade_history
    appended_positions,  \* for each history entry, the positions it showed when appended
    total_decisions,     \* HighPerformanceBacktester.total_decisions
    successful_decisions,\* HighPerformanceBacktester.successful_decisions
    trade_log,           \* HighPerformanceBacktester.trade_log
    call,                \* the last call made and its arguments
    ret,                 \* what the last execute_trade call returned
    config,              \* HighPerformanceBacktester.config: dates and ticker list
    price_data,          \* what load_prices_for_ticker gives for each ticker
    pc,                  \* where the orchestrator is in its life
    trading_dates,       \* run_backtest's trading_dates
    day,                 \* index of current_date in trading_dates
    ticker_ix,           \* index in config.tickers of the ticker to process next
    backtester_history,  \* HighPerformanceBacktester.portfolio_history
    log_dir,             \* whether the run's log directory has been created
    events,              \* the trades, price updates and snapshots made, in order
    expert_outputs,      \* the outputs of the experts present in an aggregation
    aggregation_result,  \* what the last aggregation returned
    trades_data,         \* PerformanceLogger.trades_data
    config_status,       \* the status config.json of the run shows
    files,               \* the data files of the run that are written in full
    portfolio_values,    \* the total values of a history given to MetricsCalculator
    metrics_result       \* what the last metrics calculation returned

simVars == <<cash, positions, current_state, portfolio_history, trade_history,
             appended_positions>>
runVars == <<total_decisions, successful_decisions, trade_log, trades_data>>
loopVars == <<config, price_data, pc, trading_dates, day, ticker_ix,
              backtester_history, log_dir, events, config_status, files>>
aggVars == <<expert_outputs, aggregation_result>>
metricVars == <<portfolio_values, metrics_result>>
vars == <<cash, positions, current_state, portfolio_history, trade_history,
          appended_positions, total_decisions, successful_decisions, trade_log,
          call, ret, config, price_data, pc, trading_dates, day, ticker_ix,
          backtester_history, log_dir, events, expert_outputs, aggregation_result,
          trades_data, config_status, files, portfolio_values, metrics_result>>

----------------------------------------------------------------------------
(* Bounds and input sets *)

MaxHistory == 3      \* simulator calls are made while the history is shorter
MaxDecisions == 1    \* ticker-days the orchestrator processes

Tickers == {"AA", "BB"}
PricesOf(ticker) == IF ticker = "AA" THEN {50, 60} ELSE {80000}
InvalidPrices == {0}
ConfidencesOf(ticker) == IF ticker = "AA" THEN {0, 8} ELSE {8}
Dates == {1}
TradeActions == {"BUY", "SELL", "HOLD"}

----------------------------------------------------------------------------
(* Configuration: PortfolioSimulatorConfig defaults *)

TicksPerDollar == 200
initial_capital == 100000 * TicksPerDollar
position_sizing == [num |-> 2, den |-> 25]        \* 0.08
max_position_size == [num |-> 1, den |-> 4]       \* 0.25
cash_reserve == [num |-> 1, den |-> 5]            \* 0.2
min_cash_reserve == [num |-> 1, den |-> 10]       \* 0.1
transaction_cost_rate == [num |-> 1, den |-> 1000]  \* 0.001
slippage_rate == [num |-> 1, den |-> 2000]          \* 0.0005
min_position_fraction == [num |-> 1, den |-> 100]   \* the literal 0.01
max_positions == 1     \* a configured limit below the number of tickers

----------------------------------------------------------------------------
(* Arithmetic helpers *)

\* floor(a * n / d) for a >= 0, n >= 0, d > 0, without forming a * n
MulDiv(a, n, d) == (a \div d) * n + ((a % d) * n) \div d

\* Python's int(a / b) for b > 0: truncation toward zero
Trunc(a, b) == IF a >= 0 THEN a \div b ELSE -((-a) \div b)

Min(a, b) == IF a <= b THEN a ELSE b
Max(a, b) == IF a >= b THEN a ELSE b

\* a quotient n/d kept unreduced; every zero is the same value
Ratio(n, d) == IF n = 0 THEN [num |-> 0, den |-> 1] ELSE [num |-> n, den |-> d]

RECURSIVE SumOver(_, _)
SumOver(S, f) ==
    IF S = {} THEN 0
    ELSE LET x == CHOOSE y \in S : TRUE
         IN f[x] + SumOver(S \ {x}, f)

----------------------------------------------------------------------------
(* Data types *)

\* a reference to the simulator's position dict, and to a dict of its own
SelfPositions == [obj |-> "self.positions"]
OwnDict(pos) == [obj |-> "own", val |-> pos]

\* the dict a PortfolioState's positions field refers to, as it is now
Deref(ref) == IF ref.obj = "self.positions" THEN positions ELSE ref.val

\* sum(pos.quantity * pos.current_price for pos in positions.values()), in ticks
PositionsValue(pos) ==
    SumOver(DOMAIN pos,
            [t \in DOMAIN pos |-> pos[t].quantity * pos[t].current_price * TicksPerDollar])

\* mutant: the total value leaves the positions out
create_portfolio_state_cash_only(c, ref, pos, date, daily_return) ==
    [total_value |-> c,
     cash |-> c,
     positions |-> ref,
     date |-> date,
     daily_return |-> daily_return,
     cash_reserve |-> Ratio(0, 1),
     available_capital |-> Ratio(0, 1)]

\* create_evaluation_portfolio_state / EvaluationPortfolioState.__post_init__:
\* total_value is computed from the dict at construction and kept by value,
\* the dict itself is kept by reference
create_portfolio_state(c, ref, pos, date, daily_return) ==
    [total_value |-> c + PositionsValue(pos),
     cash |-> c,
     positions |-> ref,
     date |-> date,
     daily_return |-> daily_return,
     cash_reserve |-> Ratio(0, 1),
     available_capital |-> Ratio(0, 1)]

NoMessage == "none"

\* The cost fields of a TradeRecord are counted in tenths of a tick, that is
\* in two-thousandths of a dollar.
RecordUnitsPerTick == 10
default_transaction_cost == 2    \* the default argument 0.001, an amount in dollars
default_slippage == 1            \* the default argument 0.0005, an amount in dollars

\* create_trade_record, called by the simulator without transaction_cost and
\* slippage, and TradeRecord.__post_init__
create_trade_record(date, ticker, action, quantity, price, confidence, before, after, success, error_message) ==
    [date |-> date, ticker |-> ticker, action |-> action, quantity |-> quantity,
     price |-> price, value |-> quantity * price * TicksPerDollar,
     transaction_cost |-> default_transaction_cost,
     slippage |-> default_slippage,
     total_cost |-> quantity * price * TicksPerDollar * RecordUnitsPerTick
                        + default_transaction_cost + default_slippage,
     confidence |-> confidence,
     portfolio_state_before |-> before, portfolio_state_after |-> after,
     success |-> success, error_message |-> error_message, raised |-> FALSE]

\* an exception left execute_trade instead of a record
Raised == [raised |-> TRUE, success |-> FALSE, quantity |-> 0, action |-> "NONE",
           error_message |-> "ZeroDivisionError"]

NoRecord == [raised |-> FALSE, success |-> FALSE, quantity |-> 0, action |-> "NONE",
             error_message |-> NoMessage]

----------------------------------------------------------------------------
(* PortfolioSimulator: pure parts *)

\* calculate_position_size, for a total value in ticks, a price in dollars
\* and a confidence in tenths
calculate_position_size(total_value, price, confidence) ==
    IF price <= 0 THEN 0
    ELSE LET \* adjusted_size = total_value * position_sizing * (0.5 + 0.5 * confidence)
             adjusted_size == MulDiv(total_value * position_sizing.num, 10 + confidence,
                                     position_sizing.den * 20 * TicksPerDollar)
             shares == adjusted_size \div price
             max_shares == (MulDiv(total_value, max_position_size.num,
                                   max_position_size.den * TicksPerDollar)) \div price
             min_shares == Max(1, (MulDiv(total_value, min_position_fraction.num,
                                          min_position_fraction.den * TicksPerDollar)) \div price)
         IN Max(Min(shares, max_shares), min_shares)

\* trade_value, transaction_cost, slippage and total_cost of a BUY, in ticks
TradeValue(quantity, price) == quantity * price * TicksPerDollar
TransactionCost(quantity, price) ==
    (TradeValue(quantity, price) * transaction_cost_rate.num) \div transaction_cost_rate.den
Slippage(quantity, price) ==
    (TradeValue(quantity, price) * slippage_rate.num) \div slippage_rate.den
\* mutant: the slippage is not charged
TotalCost_no_slippage(quantity, price) ==
    TradeValue(quantity, price) + TransactionCost(quantity, price)
TotalCost(quantity, price) ==
    TradeValue(quantity, price) + TransactionCost(quantity, price) + Slippage(quantity, price)
NetProceeds(quantity, price) ==
    TradeValue(quantity, price) - TransactionCost(quantity, price) - Slippage(quantity, price)

\* mutant: the required reserve counts as available too
AvailableCash_with_reserve(c, total_value) == c * min_cash_reserve.den

\* check_cash_availability: available_cash = cash - total_value * min_cash_reserve,
\* returned in units of 1/min_cash_reserve.den tick
AvailableCash(c, total_value) ==
    c * min_cash_reserve.den - total_value * min_cash_reserve.num
\* mutant: only asks whether any cash is left
check_cash_availability_any_cash(c, total_value, required_cash) == c > 0
check_cash_availability(c, total_value, required_cash) ==
    AvailableCash(c, total_value) >= required_cash * min_cash_reserve.den

\* mutant: a partial execution buys a single share
MaxQuantity_single_share(c, total_value, price) ==
    IF price > 0 /\ AvailableCash(c, total_value) >= price * 2003
    THEN 1
    ELSE 0

\* _execute_buy, partial execution:
\* int(available_cash / (price * (1 + transaction_cost + slippage)))
\* with 1 + 1/1000 + 1/2000 = 2003/2000 and 2000 / (10 * 200) = 1
MaxQuantity(c, total_value, price) ==
    IF price > 0
    THEN Trunc(AvailableCash(c, total_value), price * 2003)
    ELSE 0

----------------------------------------------------------------------------
(* PortfolioSimulator: state *)

NoPositions == [t \in {} |-> 0]

\* Position(ticker, quantity, avg_price, current_price): status defaults to OPEN
NewPosition(quantity, price) ==
    [quantity |-> quantity, current_price |-> price, status |-> "OPEN"]

\* PortfolioSimulator.__init__; the construction date is written 0
InitialState ==
    [create_portfolio_state(initial_capital, SelfPositions, NoPositions, 0, Ratio(0, 1))
        EXCEPT !.total_value = initial_capital]

\* op: the operation called last; action: the side given to execute_trade or
\* the outcome of the aggregation; executed: whether execute_trade was called
NoCall == [op |-> "none", action |-> "", executed |-> FALSE]

\* no orchestrator has been constructed
NoRun ==
    /\ config = [start_date |-> 0, end_date |-> 0, tickers |-> << >>]
    /\ price_data = << >>
    /\ pc = "none"
    /\ trading_dates = << >>
    /\ day = 0
    /\ ticker_ix = 0
    /\ backtester_history = << >>
    /\ log_dir = FALSE
    /\ events = << >>
    /\ config_status = "absent"
    /\ files = {}

\* no metrics have been asked for
NoMetrics ==
    /\ portfolio_values = << >>
    /\ metrics_result = [kind |-> "none"]

\* no aggregation has been asked for
NoAggregation ==
    /\ expert_outputs = [name \in {} |-> 0]
    /\ aggregation_result = [kind |-> "none"]

Init ==
    /\ cash = initial_capital
    /\ positions = NoPositions
    /\ current_state = InitialState
    /\ portfolio_history = << >>
    /\ trade_history = << >>
    /\ appended_positions = << >>
    /\ total_decisions = 0
    /\ successful_decisions = 0
    /\ trade_log = << >>
    /\ trades_data = << >>
    /\ call = NoCall
    /\ ret = NoRecord
    /\ NoRun
    /\ NoAggregation
    /\ NoMetrics

\* the daily return _update_portfolio_state computes: the state it reads is
\* self.current_state as it is before the new state is created
DailyReturn ==
    IF portfolio_history # << >>
    THEN LET prev_value == portfolio_history[Len(portfolio_history)].total_value
         IN IF prev_value > 0
            THEN Ratio(current_state.total_value - prev_value, prev_value)
            ELSE Ratio(0, 1)
    ELSE Ratio(0, 1)

\* the state _update_portfolio_state creates from the new cash c and the new
\* contents pos of the position dict
NewState(c, pos, date) ==
    [create_portfolio_state(c, SelfPositions, pos, date, DailyReturn)
        EXCEPT !.cash_reserve =
                   Ratio(current_state.total_value * cash_reserve.num, cash_reserve.den),
               !.available_capital =
                   Ratio(c * cash_reserve.den - current_state.total_value * cash_reserve.num,
                         cash_reserve.den)]

\* _update_portfolio_state
update_portfolio_state(c, pos, date) ==
    /\ current_state' = NewState(c, pos, date)
    /\ portfolio_history' = Append(portfolio_history, NewState(c, pos, date))
    /\ appended_positions' = Append(appended_positions, pos)

----------------------------------------------------------------------------
(* PortfolioSimulator: execute_trade *)

\* Position.add_quantity: the mark price and the status stay
AddQuantity(pos, ticker, quantity) ==
    [pos EXCEPT ![ticker].quantity = @ + quantity]

\* mutant: a position is closed only when more than it holds is sold
ReduceQuantity_strict(pos, ticker, quantity, price) ==
    IF quantity > pos[ticker].quantity
    THEN [t \in DOMAIN pos \ {ticker} |-> pos[t]]
    ELSE [pos EXCEPT ![ticker] = [quantity |-> @.quantity - quantity,
                                  current_price |-> price,
                                  status |-> "PARTIAL"]]

\* Position.reduce_quantity followed by the removal of a position left at 0
ReduceQuantity(pos, ticker, quantity, price) ==
    IF quantity >= pos[ticker].quantity
    THEN [t \in DOMAIN pos \ {ticker} |-> pos[t]]
    ELSE [pos EXCEPT ![ticker] = [quantity |-> @.quantity - quantity,
                                  current_price |-> price,
                                  status |-> "PARTIAL"]]

\* mutant: the record of the call is kept in the trade history
Rejected_recorded(date, ticker, action, price, confidence, success, message) ==
    /\ ret' = create_trade_record(date, ticker, action, 0, price, confidence,
                                  current_state, current_state, success, message)
    /\ trade_history' = Append(trade_history, ret')
    /\ UNCHANGED <<cash, positions, current_state, portfolio_history, appended_positions>>

\* a return without any mutation
Rejected(date, ticker, action, price, confidence, success, message) ==
    /\ ret' = create_trade_record(date, ticker, action, 0, price, confidence,
                                  current_state, current_state, success, message)
    /\ UNCHANGED simVars

\* _execute_buy
execute_buy(ticker, requested, price, confidence, date) ==
    LET full == check_cash_availability(cash, current_state.total_value,
                                        TotalCost(requested, price))
        max_quantity == MaxQuantity(cash, current_state.total_value, price)
        quantity == IF full THEN requested ELSE max_quantity
        message == IF full THEN NoMessage ELSE "Partial execution"
        c == cash - TotalCost(quantity, price)
    IN IF ~full /\ ~(max_quantity > 0)
       THEN Rejected(date, ticker, "BUY", price, confidence, FALSE,
                     "Cannot execute buy order")
       ELSE IF ticker \in DOMAIN positions /\ positions[ticker].quantity + quantity = 0
       THEN \* add_quantity divides by the new quantity
            /\ cash' = c
            /\ ret' = Raised
            /\ UNCHANGED <<positions, current_state, portfolio_history, trade_history,
                           appended_positions>>
       ELSE LET pos == IF ticker \in DOMAIN positions
                       THEN AddQuantity(positions, ticker, quantity)
                       ELSE [t \in DOMAIN positions \cup {ticker} |->
                                IF t = ticker THEN NewPosition(quantity, price)
                                ELSE positions[t]]
                rec == create_trade_record(date, ticker, "BUY", quantity, price,
                                           confidence, current_state,
                                           NewState(c, pos, date), TRUE, message)
            IN /\ cash' = c
               /\ positions' = pos
               /\ update_portfolio_state(c, pos, date)
               /\ trade_history' = Append(trade_history, rec)
               /\ ret' = rec

\* _execute_sell
execute_sell(ticker, requested, price, confidence, date) ==
    IF ticker \notin DOMAIN positions
    THEN Rejected(date, ticker, "SELL", price, confidence, FALSE, "No position to sell")
    ELSE LET available_quantity == positions[ticker].quantity
             quantity == IF requested > available_quantity
                         THEN available_quantity ELSE requested
             message == IF requested > available_quantity
                        THEN "Partial sell" ELSE NoMessage
             c == cash + NetProceeds(quantity, price)
             pos == ReduceQuantity(positions, ticker, quantity, price)
             rec == create_trade_record(date, ticker, "SELL", quantity, price,
                                        confidence, current_state,
                                        NewState(c, pos, date), TRUE, message)
         IN /\ cash' = c
            /\ positions' = pos
            /\ update_portfolio_state(c, pos, date)
            /\ trade_history' = Append(trade_history, rec)
            /\ ret' = rec

\* mutant: every action but BUY is taken for a SELL
execute_trade_hold_sells(ticker, action, price, confidence, date) ==
    LET quantity == calculate_position_size(current_state.total_value, price, confidence)
    IN IF action = "BUY"
       THEN execute_buy(ticker, quantity, price, confidence, date)
       ELSE execute_sell(ticker, quantity, price, confidence, date)

\* execute_trade
execute_trade(ticker, action, price, confidence, date) ==
    IF action = "HOLD"
    THEN Rejected(date, ticker, "HOLD", price, confidence, TRUE, NoMessage)
    ELSE LET quantity == calculate_position_size(current_state.total_value, price,
                                                 confidence)
         IN IF action = "BUY"
            THEN execute_buy(ticker, quantity, price, confidence, date)
            ELSE execute_sell(ticker, quantity, price, confidence, date)

\* mutant: a price update reopens the position
UpdatedPrices_reopens(pos, price_updates) ==
    [t \in DOMAIN pos |->
        IF t \in DOMAIN price_updates /\ price_updates[t] > 0
        THEN [pos[t] EXCEPT !.current_price = price_updates[t], !.status = "OPEN"]
        ELSE pos[t]]

\* update_prices: an invalid price is skipped, a ticker not held is ignored
UpdatedPrices(pos, price_updates) ==
    [t \in DOMAIN pos |->
        IF t \in DOMAIN price_updates /\ price_updates[t] > 0
        THEN [pos[t] EXCEPT !.current_price = price_updates[t]]
        ELSE pos[t]]

update_prices(price_updates, date) ==
    /\ positions' = UpdatedPrices(positions, price_updates)
    /\ update_portfolio_state(cash, UpdatedPrices(positions, price_updates), date)
    /\ UNCHANGED <<cash, trade_history>>

----------------------------------------------------------------------------
(* HighPerformanceBacktester: one ticker-day *)

AggregationOutcomes == {"BUY", "SELL", "HOLD", "none", "raises"}

\* mutant: the record of every executed call is logged, rejected or not
process_ticker_logs_rejected(ticker, outcome, price, confidence, date) ==
    IF outcome \in {"none", "raises"}
    THEN /\ call' = [op |-> "process_ticker", action |-> outcome, executed |-> FALSE]
         /\ UNCHANGED <<simVars, runVars, ret>>
    ELSE /\ total_decisions' = total_decisions + 1
         /\ call' = [op |-> "process_ticker", action |-> outcome,
                     executed |-> outcome # "HOLD"]
         /\ IF outcome \in {"BUY", "SELL"}
            THEN /\ execute_trade(ticker, outcome, price, confidence, date)
                 /\ trade_log' = Append(trade_log, ret')
                 /\ trades_data' = Append(trades_data, ret')
                 /\ successful_decisions' = successful_decisions + 1
            ELSE UNCHANGED <<simVars, ret, trade_log, trades_data, successful_decisions>>

\* mutant: every executed call counts as a successful decision
process_ticker_counts_rejected(ticker, outcome, price, confidence, date) ==
    IF outcome \in {"none", "raises"}
    THEN /\ call' = [op |-> "process_ticker", action |-> outcome, executed |-> FALSE]
         /\ UNCHANGED <<simVars, runVars, ret>>
    ELSE /\ total_decisions' = total_decisions + 1
         /\ call' = [op |-> "process_ticker", action |-> outcome,
                     executed |-> outcome # "HOLD"]
         /\ IF outcome \in {"BUY", "SELL"}
            THEN /\ execute_trade(ticker, outcome, price, confidence, date)
                 /\ successful_decisions' = successful_decisions + 1
                 /\ IF ret'.success
                    THEN /\ trade_log' = Append(trade_log, ret')
                         /\ trades_data' = Append(trades_data, ret')
                    ELSE UNCHANGED <<trade_log, trades_data>>
            ELSE UNCHANGED <<simVars, ret, trade_log, trades_data, successful_decisions>>

\* _process_ticker_optimized: outcome is what aggregate_experts gives for the
\* ticker-day (a decision, None, or an exception)
process_ticker(ticker, outcome, price, confidence, date) ==
    IF outcome \in {"none", "raises"}
    THEN /\ call' = [op |-> "process_ticker", action |-> outcome, executed |-> FALSE]
         /\ UNCHANGED <<simVars, runVars, ret>>
    ELSE /\ total_decisions' = total_decisions + 1
         /\ call' = [op |-> "process_ticker", action |-> outcome,
                     executed |-> outcome # "HOLD"]
         /\ IF outcome \in {"BUY", "SELL"}
            THEN /\ execute_trade(ticker, outcome, price, confidence, date)
                 /\ IF ret'.success
                    THEN /\ trade_log' = Append(trade_log, ret')
                         /\ trades_data' = Append(trades_data, ret')
                         /\ successful_decisions' = successful_decisions + 1
                    ELSE UNCHANGED <<trade_log, trades_data, successful_decisions>>
            ELSE UNCHANGED <<simVars, ret, trade_log, trades_data, successful_decisions>>

----------------------------------------------------------------------------
(* Specifications *)

\* the price maps given to update_prices: the one ticker whose price moves,
\* absent, at an invalid price or at one of its prices
PriceUpdates ==
    {pu \in UNION {[S -> {0, 50, 60, 80000}] : S \in SUBSET {"AA"}} :
        \A t \in DOMAIN pu :
            pu[t] \in PricesOf(t) \cup InvalidPrices}

\* a direct call of execute_trade
TradeCall(ticker, action, price, confidence, date) ==
    /\ Len(portfolio_history) < MaxHistory
    /\ execute_trade(ticker, action, price, confidence, date)
    /\ call' = [op |-> "execute_trade", action |-> action, executed |-> TRUE]
    /\ UNCHANGED runVars

ExecuteTrade ==
    \E ticker \in Tickers, action \in TradeActions, date \in Dates :
        \E price \in PricesOf(ticker), confidence \in ConfidencesOf(ticker) :
            /\ TradeCall(ticker, action, price, confidence, date)
            /\ UNCHANGED <<loopVars, aggVars, metricVars>>

ExecuteTradeInvalidPrice ==
    \E ticker \in Tickers, action \in TradeActions, date \in Dates :
        \E price \in InvalidPrices, confidence \in ConfidencesOf(ticker) :
            /\ TradeCall(ticker, action, price, confidence, date)
            /\ UNCHANGED <<loopVars, aggVars, metricVars>>

UpdatePrices ==
    \E price_updates \in PriceUpdates, date \in Dates :
        /\ Len(portfolio_history) < MaxHistory
        /\ update_prices(price_updates, date)
        /\ call' = [op |-> "update_prices", action |-> "", executed |-> FALSE]
        /\ UNCHANGED <<runVars, ret, loopVars, aggVars, metricVars>>

ProcessTicker ==
    \E ticker \in Tickers, outcome \in AggregationOutcomes, date \in Dates :
        \E price \in PricesOf(ticker), confidence \in ConfidencesOf(ticker) :
            /\ Len(portfolio_history) < MaxHistory
            /\ total_decisions < MaxDecisions
            /\ process_ticker(ticker, outcome, price, confidence, date)
            /\ UNCHANGED <<loopVars, aggVars, metricVars>>

Next == ExecuteTrade \/ UpdatePrices \/ ProcessTicker

Spec == Init /\ [][Next]_vars

NextAnyPrice == ExecuteTrade \/ ExecuteTradeInvalidPrice \/ UpdatePrices \/ ProcessTicker

SpecAnyPrice == Init /\ [][NextAnyPrice]_vars

----------------------------------------------------------------------------
(* HighPerformanceBacktester: a whole run *)

MaxDate == 3         \* the price series cover the dates 1..MaxDate

AllDates == 1..MaxDate

Range(seq) == {seq[k] : k \in DOMAIN seq}

\* the configurations an orchestrator is constructed with
RunConfigs ==
    [start_date : {1, 2}, end_date : {1, MaxDate},
     tickers : {<< >>, <<"AA">>, <<"AA", "BB">>}]

RunConfidences == {8}

\* what load_prices_for_ticker returns: a frame of closes by date, or None
Loaded(close) == [found |-> TRUE, close |-> close]
NotFound == [found |-> FALSE, close |-> << >>]

\* the price files there may be for a ticker: every date, a late start, an
\* invalid close on the first date, no file; for BB every date or the first only
LoadsOf(ticker) ==
    IF ticker = "AA"
    THEN {Loaded([d \in AllDates |-> IF d % 2 = 1 THEN 50 ELSE 60]),
          Loaded([d \in AllDates \ {1} |-> 50]),
          Loaded([d \in AllDates |-> IF d = 1 THEN 0 ELSE 50]),
          NotFound}
    ELSE {Loaded([d \in AllDates |-> 80000]),
          Loaded([d \in {1} |-> 80000])}

\* mutant: the dates are listed latest first
RECURSIVE Sorted_descending(_)
Sorted_descending(S) ==
    IF S = {} THEN << >>
    ELSE LET m == CHOOSE x \in S : \A y \in S : x >= y
         IN <<m>> \o Sorted_descending(S \ {m})

\* sorted(list(S))
RECURSIVE Sorted(_)
Sorted(S) ==
    IF S = {} THEN << >>
    ELSE LET m == CHOOSE x \in S : \A y \in S : x <= y
         IN <<m>> \o Sorted(S \ {m})

\* run_backtest: all_dates.update(ticker_data.index) for every ticker, then
\* the dates of the configured range in increasing order
TradingDates(cfg, data) ==
    LET all_dates == UNION {DOMAIN data[t].close : t \in DOMAIN data}
    IN Sorted({d \in all_dates : cfg.start_date <= d /\ d <= cfg.end_date})

\* pd.notna(current_price) and current_price > 0, for a date of the index
HasValidClose(ticker, date) ==
    /\ date \in DOMAIN price_data[ticker].close
    /\ price_data[ticker].close[date] > 0

\* the PortfolioState run_backtest builds, with a dict of its own
RunInitialState(date) ==
    create_portfolio_state(initial_capital, OwnDict(NoPositions), NoPositions, date,
                           Ratio(0, 1))

Event(kind, date) == [kind |-> kind, date |-> date]

InitRun ==
    /\ cash = initial_capital
    /\ positions = NoPositions
    /\ current_state = InitialState
    /\ portfolio_history = << >>
    /\ trade_history = << >>
    /\ appended_positions = << >>
    /\ total_decisions = 0
    /\ successful_decisions = 0
    /\ trade_log = << >>
    /\ trades_data = << >>
    /\ call = NoCall
    /\ ret = NoRecord
    /\ config \in RunConfigs
    /\ price_data \in [Range(config.tickers) -> UNION {LoadsOf(t) : t \in Tickers}]
    /\ \A t \in Range(config.tickers) : price_data[t] \in LoadsOf(t)
    /\ pc = "new"
    /\ trading_dates = << >>
    /\ day = 0
    /\ ticker_ix = 0
    /\ backtester_history = << >>
    /\ log_dir = FALSE
    /\ events = << >>
    /\ config_status = "absent"
    /\ files = {}
    /\ NoAggregation
    /\ NoMetrics

\* HighPerformanceBacktester.__init__: the simulator and the loggers are
\* created, and PerformanceLogger makes the log directory and saves the config
Construct ==
    /\ pc = "new"
    /\ pc' = "constructed"
    /\ log_dir' = TRUE
    /\ config_status' = "running"
    /\ call' = [op |-> "__init__", action |-> "", executed |-> FALSE]
    /\ UNCHANGED <<simVars, runVars, ret, config, price_data, trading_dates, day,
                   ticker_ix, backtester_history, events, files, aggVars, metricVars>>

\* run_backtest up to the daily loop: load the prices, list the trading
\* dates, reset the simulator to the initial state and record that state
StartRun ==
    /\ pc = "constructed"
    /\ call' = [op |-> "run_backtest", action |-> "", executed |-> FALSE]
    /\ UNCHANGED <<runVars, ret, config, price_data, log_dir, events, config_status,
                   files, aggVars, metricVars>>
    /\ IF \E t \in DOMAIN price_data : ~price_data[t].found
       THEN /\ pc' = "returned_none"
            /\ UNCHANGED <<simVars, trading_dates, day, ticker_ix, backtester_history>>
       ELSE IF TradingDates(config, price_data) = << >>
       THEN \* trading_dates[0] raises IndexError, which run_backtest re-raises
            /\ pc' = "raised"
            /\ UNCHANGED <<simVars, trading_dates, day, ticker_ix, backtester_history>>
       ELSE LET dates == TradingDates(config, price_data)
                initial_state == RunInitialState(dates[1])
            IN /\ trading_dates' = dates
               /\ cash' = initial_state.cash
               /\ positions' = NoPositions
               /\ current_state' = initial_state
               /\ portfolio_history' = <<initial_state>>
               /\ appended_positions' = <<NoPositions>>
               /\ trade_history' = << >>
               /\ backtester_history' = Append(backtester_history, initial_state)
               /\ pc' = "loop"
               /\ day' = 1
               /\ ticker_ix' = 1

\* the loop body for one ticker whose close of the day is valid
ProcessTickerDay ==
    \E outcome \in AggregationOutcomes, confidence \in RunConfidences :
        /\ pc = "loop"
        /\ ticker_ix <= Len(config.tickers)
        /\ HasValidClose(config.tickers[ticker_ix], trading_dates[day])
        /\ process_ticker(config.tickers[ticker_ix], outcome,
                          price_data[config.tickers[ticker_ix]].close[trading_dates[day]],
                          confidence, trading_dates[day])
        /\ events' = IF call'.executed
                     THEN Append(events, Event("trade", trading_dates[day]))
                     ELSE events
        /\ ticker_ix' = ticker_ix + 1
        /\ UNCHANGED <<config, price_data, pc, trading_dates, day, backtester_history,
                       log_dir, config_status, files, aggVars, metricVars>>

\* the loop body for one ticker that has no valid close on the day
SkipTickerDay ==
    /\ pc = "loop"
    /\ ticker_ix <= Len(config.tickers)
    /\ ~HasValidClose(config.tickers[ticker_ix], trading_dates[day])
    /\ ticker_ix' = ticker_ix + 1
    /\ call' = [op |-> "skip", action |-> "", executed |-> FALSE]
    /\ UNCHANGED <<simVars, runVars, ret, config, price_data, pc, trading_dates, day,
                   backtester_history, log_dir, events, config_status, files,
                   aggVars, metricVars>>

\* the price_updates _calculate_daily_metrics_optimized collects: the valid
\* closes of the day for the tickers held
DayPriceUpdates(date) ==
    [t \in {u \in Range(config.tickers) :
                u \in DOMAIN positions /\ HasValidClose(u, date)} |->
        price_data[t].close[date]]

\* _calculate_daily_metrics_optimized, then the loop moves to the next day or ends
calculate_daily_metrics(date) ==
    /\ IF DOMAIN DayPriceUpdates(date) # {}
       THEN /\ update_prices(DayPriceUpdates(date), date)
            /\ events' = events \o <<Event("update_prices", date), Event("snapshot", date)>>
       ELSE /\ UNCHANGED simVars
            /\ events' = Append(events, Event("snapshot", date))
    /\ backtester_history' = Append(backtester_history, current_state')
    /\ call' = [op |-> "daily_metrics", action |-> "", executed |-> FALSE]

DailyMetrics ==
    /\ pc = "loop"
    /\ ticker_ix = Len(config.tickers) + 1
    /\ calculate_daily_metrics(trading_dates[day])
    /\ ticker_ix' = 1
    /\ IF day < Len(trading_dates)
       THEN day' = day + 1 /\ pc' = "loop"
       ELSE day' = day /\ pc' = "done"
    /\ UNCHANGED <<runVars, ret, config, price_data, trading_dates, log_dir,
                   config_status, files, aggVars, metricVars>>

\* what writing a file can do: write it in full, or fail with an OSError
\* before the content is complete
WriteOutcomes == {"written", "fails"}

\* the files save_final_results writes after the status, in its order
SaveFiles == <<"portfolio_daily.json", "tickers_daily.json", "trades.json", "results.json">>

\* _update_config_status(status): config.json is read and rewritten; an
\* exception is logged and swallowed, and leaves the file as it was or, when
\* the rewrite stops part-way, without a readable status
update_config_status(status, outcome) ==
    config_status' = CASE outcome = "written" -> status
                       [] outcome = "fails" -> config_status
                       [] outcome = "truncated" -> "unreadable"

\* the end of run_backtest after the daily loop: the final metrics (whose
\* errors are swallowed), then the first statement of save_final_results
UpdateConfigStatus ==
    \E outcome \in WriteOutcomes \cup {"truncated"} :
        /\ pc = "done"
        /\ update_config_status("completed", outcome)
        /\ pc' = "saving"
        /\ call' = [op |-> "_update_config_status", action |-> outcome, executed |-> FALSE]
        /\ UNCHANGED <<simVars, runVars, ret, config, price_data, trading_dates, day,
                       ticker_ix, backtester_history, log_dir, events, files,
                       aggVars, metricVars>>

\* _write_json_file for the next file of save_final_results: a failure is
\* re-raised, leaves save_final_results and is re-raised by run_backtest
WriteJsonFile ==
    \E outcome \in WriteOutcomes :
        /\ pc = "saving"
        /\ LET filename == SaveFiles[Cardinality(files) + 1]
           IN IF outcome = "written"
              THEN /\ files' = files \cup {filename}
                   /\ pc' = IF filename = SaveFiles[Len(SaveFiles)]
                            THEN "returned" ELSE "saving"
              ELSE /\ files' = files
                   /\ pc' = "raised"
        /\ call' = [op |-> "_write_json_file", action |-> outcome, executed |-> FALSE]
        /\ UNCHANGED <<simVars, runVars, ret, config, price_data, trading_dates, day,
                       ticker_ix, backtester_history, log_dir, events, config_status,
                       aggVars, metricVars>>

\* the success_rate run_backtest reports
success_rate == Ratio(successful_decisions, Max(total_decisions, 1))

NextRun ==
    \/ Construct \/ StartRun \/ ProcessTickerDay \/ SkipTickerDay \/ DailyMetrics
    \/ UpdateConfigStatus \/ WriteJsonFile

SpecRun == InitRun /\ [][NextRun]_vars

----------------------------------------------------------------------------
(* DecisionProbabilities and ExpertAggregator *)

\* Probabilities are counted in millionths (One stands for 1.0), confidence
\* and data quality in tenths, gating weights in ten-thousandths.
One == 1000000
Tenth == 100000
WeightUnit == 10000

\* np.isclose(total, 1.0, atol=1e-6): |total - 1.0| <= atol + rtol * |1.0|
\* with numpy's default rtol of 1e-5, in millionths
isclose_atol == 1
isclose_rtol_of_one == 10
IsCloseToOne(total) ==
    LET diff == IF total >= One THEN total - One ELSE One - total
    IN diff <= isclose_atol + isclose_rtol_of_one

ValueError == [error |-> "ValueError"]

\* DecisionProbabilities(buy, hold, sell) with its __post_init__: the object,
\* or the ValueError the validation raises
DecisionProbabilities(buy, hold, sell) ==
    IF ~IsCloseToOne(buy + hold + sell)
    THEN ValueError
    ELSE [error |-> "none", buy_probability |-> buy, hold_probability |-> hold,
          sell_probability |-> sell]

\* mutant: ties go to buy, then hold, then sell
determine_decision_hold_before_sell(probabilities) ==
    LET buy_prob == probabilities.buy_probability
        hold_prob == probabilities.hold_probability
        sell_prob == probabilities.sell_probability
        max_prob == Max(buy_prob, Max(hold_prob, sell_prob))
    IN IF max_prob = buy_prob THEN "BUY"
       ELSE IF max_prob = hold_prob THEN "HOLD"
       ELSE "SELL"

\* _determine_decision
determine_decision(probabilities) ==
    LET buy_prob == probabilities.buy_probability
        hold_prob == probabilities.hold_probability
        sell_prob == probabilities.sell_probability
        max_prob == Max(buy_prob, Max(hold_prob, sell_prob))
    IN IF max_prob = buy_prob THEN "BUY"
       ELSE IF max_prob = sell_prob THEN "SELL"
       ELSE "HOLD"

\* the components a probability vector is built from, in millionths
Components == {-2 * Tenth, 0, 5, Tenth, 3 * Tenth, 4 * Tenth, 5 * Tenth, 6 * Tenth, One}

\* -p * np.log(p + 1e-10) for p = 1, ..., 10 tenths, in ten-thousandths
NegPLogP == <<2303, 3219, 3612, 3665, 3466, 3065, 2497, 1785, 948, 0>>
Log3 == 10986        \* np.log(3)

\* one term of the entropy sum; a component that is not positive is left out
EntropyTerm(p) == IF p >= Tenth THEN NegPLogP[p \div Tenth] ELSE 0

Entropy(probabilities) ==
    EntropyTerm(probabilities.buy_probability)
        + EntropyTerm(probabilities.hold_probability)
        + EntropyTerm(probabilities.sell_probability)

\* certainty_bonus = (1.0 - entropy / np.log(3)) * 0.4
CertaintyBonus(probabilities) == ((Log3 - Entropy(probabilities)) * 4000) \div Log3

\* mutant: the weight is not floored
RawWeight_no_floor(output) ==
    output.confidence_score * 1000 + output.input_data_quality * 400
        + CertaintyBonus(output.probabilities)

\* weights[name] = max(0.1, confidence_weight + data_quality_bonus + certainty_bonus)
RawWeight(output) ==
    Max(1000, output.confidence_score * 1000 + output.input_data_quality * 400
                  + CertaintyBonus(output.probabilities))

\* _calculate_gating_weights: a weight is kept as raw weight over total weight
calculate_gating_weights(outputs) ==
    LET raw == [name \in DOMAIN outputs |-> RawWeight(outputs[name])]
        total_weight == SumOver(DOMAIN outputs, raw)
    IN IF total_weight > 0
       THEN [name \in DOMAIN outputs |-> Ratio(raw[name], total_weight)]
       ELSE [name \in DOMAIN outputs |-> Ratio(1, Cardinality(DOMAIN outputs))]

\* floor(num / den) in millionths, for 0 <= num <= den
Millionths(num, den) ==
    ((num * 1000) \div den) * 1000 + (((num * 1000) % den) * 1000) \div den

\* mutant: the plain sums, whatever the weights
aggregate_probabilities_unweighted(outputs, weights) ==
    LET Summed(field) ==
            SumOver(DOMAIN outputs,
                    [name \in DOMAIN outputs |->
                        outputs[name].probabilities[field] \div Tenth])
        aggregated_buy == Summed("buy_probability")
        aggregated_hold == Summed("hold_probability")
        aggregated_sell == Summed("sell_probability")
        total == aggregated_buy + aggregated_hold + aggregated_sell
    IN IF total > 0
       THEN DecisionProbabilities(Millionths(aggregated_buy, total),
                                  Millionths(aggregated_hold, total),
                                  Millionths(aggregated_sell, total))
       ELSE DecisionProbabilities(0, 0, 0)

\* _aggregate_probabilities, for weights over one common denominator: the
\* weighted sums, divided by their total when it is positive, then given to
\* DecisionProbabilities
aggregate_probabilities(outputs, weights) ==
    LET Weighted(field) ==
            SumOver(DOMAIN outputs,
                    [name \in DOMAIN outputs |->
                        (outputs[name].probabilities[field] \div Tenth) * weights[name].num])
        aggregated_buy == Weighted("buy_probability")
        aggregated_hold == Weighted("hold_probability")
        aggregated_sell == Weighted("sell_probability")
        total == aggregated_buy + aggregated_hold + aggregated_sell
    IN IF total > 0
       THEN DecisionProbabilities(Millionths(aggregated_buy, total),
                                  Millionths(aggregated_hold, total),
                                  Millionths(aggregated_sell, total))
       ELSE DecisionProbabilities(0, 0, 0)

\* _create_expert_contributions
create_expert_contributions(outputs, weights) ==
    [name \in DOMAIN outputs |->
        [weight |-> weights[name],
         contribution |-> outputs[name].probabilities,
         confidence |-> outputs[name].confidence_score]]

\* _calculate_overall_confidence: the weighted average of the confidences, in tenths
calculate_overall_confidence(contributions) ==
    LET names == DOMAIN contributions
        total_confidence ==
            SumOver(names, [n \in names |-> contributions[n].confidence * contributions[n].weight.num])
        total_weight == SumOver(names, [n \in names |-> contributions[n].weight.num])
    IN IF names = {} THEN Ratio(0, 1)
       ELSE IF total_weight > 0 THEN Ratio(total_confidence, total_weight)
       ELSE Ratio(0, 1)

NoExperts == [name \in {} |-> 0]

\* _create_fallback_result; the overall confidence 0.1 is one tenth
create_fallback_result ==
    [final_probabilities |-> DecisionProbabilities(0, One, 0),
     expert_contributions |-> NoExperts,
     aggregation_method |-> "fallback",
     gating_weights |-> NoExperts,
     overall_confidence |-> Ratio(1, 1),
     decision_type |-> "HOLD",
     propagated |-> FALSE]

\* the steps of aggregate_experts after the experts have run
AggregationSteps ==
    {"gating_weights", "probabilities", "contributions", "decision", "confidence",
     "reasoning"}

Propagated == [propagated |-> TRUE]

\* mutant: an exception of a step leaves aggregate_experts
aggregate_experts_propagates(outputs, raises) ==
    IF DOMAIN outputs = {} THEN create_fallback_result
    ELSE IF raises # "none" THEN Propagated
    ELSE create_fallback_result

\* ExpertAggregator.aggregate_experts, from the outputs _run_all_experts
\* collected; raises is the step in which an exception is raised, if any
aggregate_experts(outputs, raises) ==
    IF DOMAIN outputs = {} THEN create_fallback_result
    ELSE LET gating_weights == calculate_gating_weights(outputs)
             final_probabilities == aggregate_probabilities(outputs, gating_weights)
             expert_contributions == create_expert_contributions(outputs, gating_weights)
         IN IF raises # "none" \/ final_probabilities = ValueError
            THEN create_fallback_result
            ELSE [final_probabilities |-> final_probabilities,
                  expert_contributions |-> expert_contributions,
                  aggregation_method |-> "dynamic_gating",
                  gating_weights |-> gating_weights,
                  overall_confidence |-> calculate_overall_confidence(expert_contributions),
                  decision_type |-> determine_decision(final_probabilities),
                  propagated |-> FALSE]

expert_names == {"sentiment", "technical", "fundamental", "chart"}

ExpertOutput(probabilities, confidence_score, input_data_quality) ==
    [probabilities |-> probabilities, confidence_score |-> confidence_score,
     input_data_quality |-> input_data_quality]

\* what an expert may answer: sure of BUY on good data, nearly undecided with
\* no confidence on no data, and two answers in between
ExpertAnswers ==
    {ExpertOutput(DecisionProbabilities(One, 0, 0), 10, 10),
     ExpertOutput(DecisionProbabilities(3 * Tenth, 3 * Tenth, 4 * Tenth), 0, 0),
     ExpertOutput(DecisionProbabilities(6 * Tenth, 3 * Tenth, Tenth), 8, 9),
     ExpertOutput(DecisionProbabilities(2 * Tenth, 6 * Tenth, 2 * Tenth), 7, 8)}

\* the dicts _run_all_experts may return: any experts present, none included
ExpertOutputDicts == UNION {[S -> ExpertAnswers] : S \in SUBSET expert_names}

InitAgg ==
    /\ cash = initial_capital
    /\ positions = NoPositions
    /\ current_state = InitialState
    /\ portfolio_history = << >>
    /\ trade_history = << >>
    /\ appended_positions = << >>
    /\ total_decisions = 0
    /\ successful_decisions = 0
    /\ trade_log = << >>
    /\ trades_data = << >>
    /\ call = NoCall
    /\ ret = NoRecord
    /\ NoRun
    /\ NoAggregation
    /\ NoMetrics

\* a call of the DecisionProbabilities constructor
ConstructProbabilities ==
    \E buy \in Components, hold \in Components, sell \in Components :
        /\ aggregation_result.kind = "none"
        /\ aggregation_result' =
               [kind |-> "DecisionProbabilities", buy |-> buy, hold |-> hold,
                sell |-> sell, returned |-> DecisionProbabilities(buy, hold, sell)]
        /\ expert_outputs' = NoExperts
        /\ UNCHANGED <<simVars, runVars, call, ret, loopVars, metricVars>>

\* a call of _determine_decision on a vector the constructor accepted
DetermineDecision ==
    \E buy \in Components, hold \in Components, sell \in Components :
        /\ aggregation_result.kind = "none"
        /\ DecisionProbabilities(buy, hold, sell) # ValueError
        /\ aggregation_result' =
               [kind |-> "determine_decision",
                probabilities |-> DecisionProbabilities(buy, hold, sell),
                returned |-> determine_decision(DecisionProbabilities(buy, hold, sell))]
        /\ expert_outputs' = NoExperts
        /\ UNCHANGED <<simVars, runVars, call, ret, loopVars, metricVars>>

\* a call of _calculate_gating_weights, the first or one after another
GatingWeights ==
    \E outputs \in ExpertOutputDicts :
        /\ aggregation_result.kind \in {"none", "gating_weights"}
        /\ DOMAIN outputs # {}
        /\ expert_outputs' = outputs
        /\ aggregation_result' =
               [kind |-> "gating_weights", returned |-> calculate_gating_weights(outputs)]
        /\ UNCHANGED <<simVars, runVars, call, ret, loopVars, metricVars>>

\* a call of aggregate_experts
AggregateExperts ==
    \E outputs \in ExpertOutputDicts, raises \in AggregationSteps \cup {"none"} :
        /\ aggregation_result.kind = "none"
        /\ expert_outputs' = outputs
        /\ aggregation_result' =
               [kind |-> "aggregate_experts", raises |-> raises,
                returned |-> aggregate_experts(outputs, raises)]
        /\ UNCHANGED <<simVars, runVars, call, ret, loopVars, metricVars>>

\* the weights a caller may pass for the experts of S: tenths that sum to 1
WeightTenths == {0, 2, 4, 6, 10}
WeightDicts(S) ==
    {w \in [S -> [num : WeightTenths, den : {10}]] :
        SumOver(S, [name \in S |-> w[name].num]) = 10}

\* a call of _aggregate_probabilities with weights of the caller's choice
AggregateProbabilities ==
    \E outputs \in ExpertOutputDicts :
        \E weights \in WeightDicts(DOMAIN outputs) :
            /\ aggregation_result.kind = "none"
            /\ DOMAIN outputs # {}
            /\ expert_outputs' = outputs
            /\ aggregation_result' =
                   [kind |-> "aggregate_probabilities", weights |-> weights,
                    returned |-> aggregate_probabilities(outputs, weights)]
            /\ UNCHANGED <<simVars, runVars, call, ret, loopVars, metricVars>>

NextAgg ==
    \/ ConstructProbabilities
    \/ DetermineDecision
    \/ GatingWeights
    \/ AggregateExperts
    \/ AggregateProbabilities

SpecAgg == InitAgg /\ [][NextAgg]_vars

----------------------------------------------------------------------------
(* MetricsCalculator *)

\* The histories given to the calculator: up to MaxValues portfolio states,
\* of which only total_value is read, in dollars.
MaxValues == 4
TotalValues == {0, 50, 100, 120}
Histories == UNION {[1..n -> TotalValues] : n \in 0..MaxValues}

ZeroDivisionError == [error |-> "ZeroDivisionError"]

\* drawdown > max_drawdown for two quotients of non-negative numbers
RatioGreater(a, b) == a.num * b.den > b.num * a.den

\* the loop of _calculate_max_drawdown from its step i on (steps are counted
\* from 1 here, from 0 in the code; a duration is a difference of steps)
RECURSIVE max_drawdown_scan(_, _, _, _, _, _)
max_drawdown_scan(values, i, peak_value, max_drawdown, drawdown_start, duration) ==
    IF i > Len(values)
    THEN [error |-> "none", max_drawdown |-> max_drawdown, duration |-> duration]
    ELSE IF values[i] > peak_value
    THEN max_drawdown_scan(values, i + 1, values[i], max_drawdown, i, duration)
    ELSE IF peak_value = 0
    THEN ZeroDivisionError
    ELSE LET drawdown == Ratio(peak_value - values[i], peak_value)
         IN IF RatioGreater(drawdown, max_drawdown)
            THEN max_drawdown_scan(values, i + 1, peak_value, drawdown,
                                   drawdown_start, i - drawdown_start)
            ELSE max_drawdown_scan(values, i + 1, peak_value, max_drawdown,
                                   drawdown_start, duration)

\* _calculate_max_drawdown(portfolio_history)
calculate_max_drawdown(values) ==
    IF Len(values) < 2
    THEN [error |-> "none", max_drawdown |-> Ratio(0, 1), duration |-> 0]
    ELSE max_drawdown_scan(values, 1, values[1], Ratio(0, 1), 1, 0)

InitMetrics ==
    /\ cash = initial_capital
    /\ positions = NoPositions
    /\ current_state = InitialState
    /\ portfolio_history = << >>
    /\ trade_history = << >>
    /\ appended_positions = << >>
    /\ total_decisions = 0
    /\ successful_decisions = 0
    /\ trade_log = << >>
    /\ trades_data = << >>
    /\ call = NoCall
    /\ ret = NoRecord
    /\ NoRun
    /\ NoAggregation
    /\ NoMetrics

CalculateMaxDrawdown ==
    \E values \in Histories :
        /\ metrics_result.kind = "none"
        /\ portfolio_values' = values
        /\ metrics_result' = [kind |-> "max_drawdown",
                              returned |-> calculate_max_drawdown(values)]
        /\ UNCHANGED <<simVars, runVars, call, ret, loopVars, aggVars>>

NextMetrics == CalculateMaxDrawdown

SpecMetrics == InitMetrics /\ [][NextMetrics]_vars

----------------------------------------------------------------------------
(* Properties of the ledger *)

\* the step called execute_trade, directly or from the orchestrator
TradeStep(action) == call'.executed /\ ~ret'.raised /\ ret'.action = action

\* C1: after any sequence of execute_trade calls at positive prices and of
\* update_prices calls, the simulator's cash is never negative.
C1_CashNeverNegative == cash >= 0

\* a BUY has spent more than four fifths of the capital and a second trade followed
C1_Witness ==
    /\ Len(trade_history) >= 2
    /\ cash * 5 < initial_capital
    /\ cash >= 0

\* C2: the current PortfolioState's total_value equals its cash plus the sum
\* over the held positions of quantity x mark price.
C2_TotalValueIsCashPlusPositions ==
    current_state.total_value =
        current_state.cash + PositionsValue(Deref(current_state.positions))

\* a price update has moved the value of a held position above the capital
C2_Witness ==
    /\ call.op = "update_prices"
    /\ DOMAIN positions # {}
    /\ current_state.total_value > initial_capital

\* C3: a PortfolioState in the portfolio history keeps the positions it had
\* when it was appended, whatever is called later.
C3_HistoryEntriesKeepTheirPositions ==
    \A i \in 1..Len(portfolio_history) :
        Deref(portfolio_history[i].positions) = appended_positions[i]

\* the BUY or SELL of the step is one the claim calls rejected: not one share
\* is affordable out of cash minus the required reserve, or nothing is held
RejectedCase ==
    \/ /\ TradeStep("BUY")
       /\ AvailableCash(cash, current_state.total_value)
              < TotalCost(1, ret'.price) * min_cash_reserve.den
    \/ /\ TradeStep("SELL")
       /\ ret'.ticker \notin DOMAIN positions

\* C4: a rejected execute_trade call returns a record with success = false
\* and quantity 0, raises nothing, and leaves cash, positions, portfolio
\* history and trade history as they were.
C4_RejectedTradeChangesNothing ==
    [][RejectedCase =>
          /\ ~ret'.success
          /\ ret'.quantity = 0
          /\ UNCHANGED <<cash, positions, portfolio_history, trade_history>>]_vars

\* a BUY was rejected after an earlier trade had used the cash
C4_Witness ==
    /\ call.executed
    /\ ret.action = "BUY"
    /\ ~ret.success
    /\ Len(trade_history) >= 1

\* C5: a SELL of a held ticker sells min(requested, held) shares with
\* success = true; the position leaves the map iff all held shares were
\* sold, else it stays with the reduced quantity and status PARTIAL.
C5_SellSellsMinOfRequestedAndHeld ==
    [][(TradeStep("SELL") /\ ret'.ticker \in DOMAIN positions) =>
          LET t == ret'.ticker
              held == positions[t].quantity
              requested == calculate_position_size(current_state.total_value,
                                                   ret'.price, ret'.confidence)
          IN /\ ret'.success
             /\ ret'.quantity = Min(requested, held)
             /\ ret'.quantity <= held
             /\ (t \notin DOMAIN positions') <=> (ret'.quantity = held)
             /\ t \in DOMAIN positions' =>
                    /\ positions'[t].quantity = held - ret'.quantity
                    /\ positions'[t].status = "PARTIAL"]_vars

\* a SELL has left part of a position in the map
C5_Witness ==
    /\ call.executed
    /\ ret.action = "SELL"
    /\ ret.success
    /\ ret.ticker \in DOMAIN positions
    /\ positions[ret.ticker].status = "PARTIAL"
    /\ positions[ret.ticker].quantity >= 1

\* floor(fraction x total value / price) with the total value in ticks
SharesFor(total_value, fraction, price) ==
    (MulDiv(total_value, fraction.num, fraction.den * TicksPerDollar)) \div price

\* C6: the share count of position sizing is
\* floor(totalValue x positionSizing x (0.5 + 0.5 x confidence) / price)
\* clamped into [minShares, maxShares], so it lies between
\* floor(0.01 x totalValue / price) and floor(maxPositionSize x totalValue / price).
\* Read on the BUY that executes the sized order in full.
C6_SharesWithinMinAndMax ==
    (call.executed /\ ~ret.raised /\ ret.action = "BUY" /\ ret.success
        /\ ret.error_message = NoMessage /\ ret.price > 0) =>
        LET total_value == ret.portfolio_state_before.total_value
            min_shares == SharesFor(total_value, min_position_fraction, ret.price)
            max_shares == SharesFor(total_value, max_position_size, ret.price)
        IN /\ min_shares <= ret.quantity
           /\ ret.quantity <= max_shares

\* C7: the state update_prices appends carries
\* dailyReturn = (newTotalValue - previousTotalValue) / previousTotalValue,
\* previousTotalValue being that of the last state in the history before the
\* call; it is non-zero whenever the update changes the total value.
C7_DailyReturnOfPriceUpdate ==
    (call.op = "update_prices" /\ Len(portfolio_history) >= 2) =>
        LET n == Len(portfolio_history)
            new_value == portfolio_history[n].total_value
            prev_value == portfolio_history[n - 1].total_value
            daily_return == portfolio_history[n].daily_return
        IN IF prev_value > 0
           THEN \/ new_value = prev_value /\ daily_return.num = 0
                \/ /\ new_value # prev_value
                   /\ daily_return.num = new_value - prev_value
                   /\ daily_return.den = prev_value
           ELSE daily_return.num = 0

\* C8: every position in the position map has a quantity >= 1, whatever the
\* ticker, side, price and confidence given to execute_trade.
C8_HeldQuantityAtLeastOne ==
    \A t \in DOMAIN positions : positions[t].quantity >= 1

\* C9: execute_trade with HOLD returns a zero-quantity record with
\* success = true and leaves cash, positions, portfolio history and trade
\* history unchanged; the orchestrator counts a HOLD decision in
\* total_decisions without calling execute_trade.
C9_HoldChangesNothing ==
    [][/\ (call'.op = "execute_trade" /\ call'.action = "HOLD") =>
              /\ ret'.action = "HOLD"
              /\ ret'.quantity = 0
              /\ ret'.success
              /\ UNCHANGED <<cash, positions, portfolio_history, trade_history>>
       /\ (call'.op = "process_ticker" /\ call'.action = "HOLD") =>
              /\ total_decisions' = total_decisions + 1
              /\ ~call'.executed
              /\ UNCHANGED <<cash, positions, portfolio_history, trade_history,
                             ret, trade_log, successful_decisions>>]_vars

\* the orchestrator has processed a HOLD decision after a direct HOLD call
\* on a ledger that holds a position
C9_Witness ==
    /\ call.op = "process_ticker"
    /\ call.action = "HOLD"
    /\ ret.action = "HOLD"
    /\ total_decisions = 1
    /\ DOMAIN positions # {}

\* the quantity the step added to the position of ticker t
QuantityAdded(t) ==
    IF t \in DOMAIN positions
    THEN positions'[t].quantity - positions[t].quantity
    ELSE positions'[t].quantity

\* C10: a successful BUY lowers cash by exactly
\* executedQuantity x price x (1 + transactionCost + slippage), the executed
\* quantity being the one added to the position; with capital 100000,
\* confidence 0.8 and price 50 that is 144 shares and 144 x 50 x 1.0015.
\* (1.0015 dollars are 2003/10 ticks.)
C10_BuyDebitsCostOfExecutedQuantity ==
    [][(TradeStep("BUY") /\ ret'.success) =>
          /\ ret'.ticker \in DOMAIN positions'
          /\ ret'.quantity = QuantityAdded(ret'.ticker)
          /\ (cash - cash') * 10 = QuantityAdded(ret'.ticker) * ret'.price * 2003
          /\ (/\ current_state.total_value = 100000 * TicksPerDollar
              /\ cash = 100000 * TicksPerDollar
              /\ ret'.price = 50
              /\ ret'.confidence = 8) =>
                 /\ ret'.quantity = 144
                 /\ (cash - cash') * 10 = 144 * 50 * 2003]_vars

\* the first BUY of the scenario has been executed: 144 shares at 50
C10_Witness ==
    /\ call.executed
    /\ ret.action = "BUY"
    /\ ret.success
    /\ ret.quantity = 144
    /\ ret.price = 50
    /\ Len(trade_history) = 1
    /\ (initial_capital - cash) * 10 = 144 * 50 * 2003

----------------------------------------------------------------------------
(* Properties of the run *)

\* the days the daily loop has entered
ProcessedDays ==
    IF pc \in {"loop", "done"} THEN {trading_dates[k] : k \in 1..day} ELSE {}

\* C11: every day the orchestrator processes lies within [start_date,
\* end_date] and is a date of the loaded price series of every configured
\* ticker.
C11_ProcessedDaysAreCommonDays ==
    \A d \in ProcessedDays :
        /\ config.start_date <= d
        /\ d <= config.end_date
        /\ \A t \in Range(config.tickers) : d \in DOMAIN price_data[t].close

SnapshotsDated(d) ==
    {n \in DOMAIN backtester_history : backtester_history[n].date = d}

\* C13: when the run is over, the orchestrator's portfolio history holds, for
\* every processed trading day, exactly one state and that state is dated
\* that day, whether or not a position was held or a trade made on it.
C13_OneSnapshotPerProcessedDay ==
    pc = "done" =>
        \A k \in DOMAIN trading_dates :
            Cardinality(SnapshotsDated(trading_dates[k])) = 1

IsPrefix(s, t) == Len(s) <= Len(t) /\ \A k \in DOMAIN s : s[k] = t[k]

\* C14: at every point of a run, every record of the orchestrator's trade
\* log is a BUY or SELL record with success = true, and a step only ever
\* appends to the log: no record is removed or moved.
C14_TradeLogHoldsSuccessfulTradesOnly ==
    [][/\ \A k \in DOMAIN trade_log' :
              /\ trade_log'[k].action \in {"BUY", "SELL"}
              /\ trade_log'[k].success
              /\ ~trade_log'[k].raised
       /\ IsPrefix(trade_log, trade_log')]_vars

\* a trade was just rejected while the log already holds a record, and a
\* HOLD or a rejection was counted earlier too
C14_Witness ==
    /\ pc = "loop"
    /\ call.executed
    /\ ~ret.success
    /\ Len(trade_log) >= 1
    /\ total_decisions >= Len(trade_log) + 2

\* C15: when the aggregation raises for a ticker-day, the run goes on with
\* the next ticker, no trade is executed, and the ticker-day is counted in
\* total_decisions but not in successful_decisions.
C15_AggregationErrorIsCountedAndSkipped ==
    [][(call'.op = "process_ticker" /\ call'.action = "raises") =>
           /\ pc' = "loop"
           /\ ticker_ix' = ticker_ix + 1
           /\ UNCHANGED <<simVars, trade_log, successful_decisions>>
           /\ total_decisions' = total_decisions + 1]_vars

\* a run-level misconfiguration: end date before start date, or no ticker
Misconfigured(cfg) == cfg.end_date < cfg.start_date \/ cfg.tickers = << >>

\* C16: an orchestrator given a run-level misconfiguration is rejected by its
\* constructor: it is never constructed, its log directory is never created
\* and it never enters the daily loop.
C16_MisconfigurationRejectedAtConstruction ==
    Misconfigured(config) =>
        /\ pc \notin {"constructed", "loop", "done"}
        /\ ~log_dir

----------------------------------------------------------------------------
(* Properties of the aggregation *)

\* C17: the decision for a probability vector is the class of the largest
\* probability, exact ties going to buy first, then sell, then hold.
C17_DecisionIsArgmaxTiesBuySellHold ==
    aggregation_result.kind = "determine_decision" =>
        LET p == aggregation_result.probabilities
            buy_is_max == p.buy_probability >= p.hold_probability
                              /\ p.buy_probability >= p.sell_probability
            sell_is_max == p.sell_probability >= p.buy_probability
                               /\ p.sell_probability >= p.hold_probability
        IN aggregation_result.returned =
               IF buy_is_max THEN "BUY" ELSE IF sell_is_max THEN "SELL" ELSE "HOLD"

\* hold and sell tie for the largest probability and the decision is SELL
C17_Witness ==
    /\ aggregation_result.kind = "determine_decision"
    /\ aggregation_result.probabilities.hold_probability
           = aggregation_result.probabilities.sell_probability
    /\ aggregation_result.probabilities.buy_probability
           < aggregation_result.probabilities.sell_probability
    /\ aggregation_result.returned = "SELL"

\* C18: aggregate_experts never lets an exception out, and when no expert
\* gave an output or a step of the aggregation raised, it returns the
\* fallback: probabilities (0, 1, 0), HOLD, overall confidence 0.1 and no
\* expert contributions.
C18_FallbackOnNoOutputOrException ==
    aggregation_result.kind = "aggregate_experts" =>
        /\ ~aggregation_result.returned.propagated
        /\ (DOMAIN expert_outputs = {} \/ aggregation_result.raises # "none") =>
               /\ aggregation_result.returned.final_probabilities
                      = [error |-> "none", buy_probability |-> 0,
                         hold_probability |-> One, sell_probability |-> 0]
               /\ aggregation_result.returned.decision_type = "HOLD"
               /\ aggregation_result.returned.overall_confidence = Ratio(1, 1)
               /\ DOMAIN aggregation_result.returned.expert_contributions = {}

\* experts answered, a step raised, and the fallback came back
C18_Witness ==
    /\ aggregation_result.kind = "aggregate_experts"
    /\ Cardinality(DOMAIN expert_outputs) >= 2
    /\ aggregation_result.raises = "probabilities"
    /\ aggregation_result.returned.aggregation_method = "fallback"

\* no expert answered and the fallback came back
C18_WitnessNoExpert ==
    /\ aggregation_result.kind = "aggregate_experts"
    /\ DOMAIN expert_outputs = {}
    /\ aggregation_result.raises = "none"
    /\ aggregation_result.returned.aggregation_method = "fallback"

\* C19: constructing a DecisionProbabilities fails exactly when a component
\* is negative or the components do not sum to 1.0 within 1e-6; a vector
\* that is accepted is stored as given.
C19_ConstructionValidatesComponentsAndSum ==
    aggregation_result.kind = "DecisionProbabilities" =>
        LET buy == aggregation_result.buy
            hold == aggregation_result.hold
            sell == aggregation_result.sell
            total == buy + hold + sell
            malformed == \/ buy < 0 \/ hold < 0 \/ sell < 0
                         \/ total - One > 1
                         \/ One - total > 1
        IN IF malformed
           THEN aggregation_result.returned = ValueError
           ELSE aggregation_result.returned =
                    [error |-> "none", buy_probability |-> buy,
                     hold_probability |-> hold, sell_probability |-> sell]

\* confidence + 0.4 * data quality + 0.4 * certainty, in ten-thousandths
Signal(output) ==
    output.confidence_score * 1000 + output.input_data_quality * 400
        + CertaintyBonus(output.probabilities)

\* a <= b for two quotients with positive denominators
RatioLeq(a, b) == a.num * b.den <= b.num * a.den

\* C20: for a non-empty set of present experts the gating weights depend on
\* the signals of the call alone: each is the expert's signal floored at 0.1
\* over the sum of the floored signals, so every present expert has a
\* strictly positive weight, the weights sum to 1 and are ordered as the
\* floored signals are.
C20_GatingWeightsPositiveNormalizedOrdered ==
    aggregation_result.kind = "gating_weights" =>
        LET w == aggregation_result.returned
            names == DOMAIN expert_outputs
            floored == [n \in names |-> Max(1000, Signal(expert_outputs[n]))]
            total == SumOver(names, floored)
        IN /\ DOMAIN w = names
           /\ \A n \in names :
                  /\ w[n].num > 0 /\ w[n].den > 0
                  /\ w[n].num * total = floored[n] * w[n].den
                  /\ w[n].den = SumOver(names, [m \in names |-> w[m].num])
           /\ \A m, n \in names :
                  floored[m] <= floored[n] <=> RatioLeq(w[m], w[n])

\* one present expert's signal is below the floor, another's is above it
C20_Witness ==
    /\ aggregation_result.kind = "gating_weights"
    /\ \E m, n \in DOMAIN expert_outputs :
           /\ Signal(expert_outputs[m]) < 1000
           /\ Signal(expert_outputs[n]) > 1000
           /\ aggregation_result.returned[m].num * 10 < aggregation_result.returned[n].num

\* C21: for experts with valid probability vectors and weights that sum to
\* 1, each aggregated probability is the weighted sum of the experts'
\* probabilities for the class, and the three sum to 1.
C21_AggregatedIsWeightedSum ==
    aggregation_result.kind = "aggregate_probabilities" =>
        LET names == DOMAIN expert_outputs
            w == aggregation_result.weights
            r == aggregation_result.returned
            WeightedSum(field) ==
                SumOver(names, [n \in names |->
                    w[n].num * (expert_outputs[n].probabilities[field] \div 10)])
        IN /\ r # ValueError
           /\ r.buy_probability = WeightedSum("buy_probability")
           /\ r.hold_probability = WeightedSum("hold_probability")
           /\ r.sell_probability = WeightedSum("sell_probability")
           /\ r.buy_probability + r.hold_probability + r.sell_probability = One

\* weights 0.6 and 0.4 on (0.6, 0.3, 0.1) and (0.2, 0.6, 0.2) give
\* (0.44, 0.42, 0.14), for which the decision is BUY
C21_Witness ==
    /\ aggregation_result.kind = "aggregate_probabilities"
    /\ DOMAIN expert_outputs = {"sentiment", "technical"}
    /\ expert_outputs["sentiment"].probabilities
           = DecisionProbabilities(6 * Tenth, 3 * Tenth, Tenth)
    /\ expert_outputs["technical"].probabilities
           = DecisionProbabilities(2 * Tenth, 6 * Tenth, 2 * Tenth)
    /\ aggregation_result.weights["sentiment"].num = 6
    /\ aggregation_result.weights["technical"].num = 4
    /\ aggregation_result.returned
           = DecisionProbabilities(44 * (Tenth \div 10), 42 * (Tenth \div 10),
                                   14 * (Tenth \div 10))
    /\ determine_decision(aggregation_result.returned) = "BUY"

----------------------------------------------------------------------------
(* Properties of the metrics *)

\* the largest value of the history up to step i
RunningPeak(values, i) ==
    CHOOSE m \in {values[k] : k \in 1..i} : \A k \in 1..i : values[k] <= m

\* (runningPeak_i - value_i) / runningPeak_i, for a positive running peak
DrawdownAt(values, i) ==
    Ratio(RunningPeak(values, i) - values[i], RunningPeak(values, i))

\* r is the maximum drawdown of the history and n a number of steps from an
\* occurrence of the running peak to a step where that maximum is reached
IsMaxDrawdown(values, r, n) ==
    /\ \A i \in DOMAIN values : ~RatioGreater(DrawdownAt(values, i), r)
    /\ \E i \in DOMAIN values :
           /\ DrawdownAt(values, i) = r
           /\ \E j \in 1..i : values[j] = RunningPeak(values, i) /\ n = i - j

\* C22: for every history of at least two states the maximum drawdown is
\* computed without error, is not negative, is the largest of the drawdowns
\* from the running peak, and the duration is the number of steps from that
\* peak to the step where the maximum was reached
C22_MaxDrawdownOfEveryHistory ==
    (metrics_result.kind = "max_drawdown" /\ Len(portfolio_values) >= 2) =>
        /\ metrics_result.returned.error = "none"
        /\ metrics_result.returned.max_drawdown.num >= 0
        /\ IsMaxDrawdown(portfolio_values, metrics_result.returned.max_drawdown,
                         metrics_result.returned.duration)

\* the same for the histories that start with a positive value
MaxDrawdownOfPositiveHistories ==
    (/\ metrics_result.kind = "max_drawdown"
     /\ Len(portfolio_values) >= 2
     /\ portfolio_values[1] > 0) =>
        /\ metrics_result.returned.error = "none"
        /\ metrics_result.returned.max_drawdown.num >= 0
        /\ IsMaxDrawdown(portfolio_values, metrics_result.returned.max_drawdown,
                         metrics_result.returned.duration)


----------------------------------------------------------------------------
(* Properties of the recorder *)

\* C23: whenever config.json shows the status completed, results.json and
\* the portfolio_daily.json, tickers_daily.json and trades.json of the run
\* have been written in full, also when a write of the saving fails
C23_CompletedRunHasFullReport ==
    config_status = "completed" => files = Range(SaveFiles)

\* save_final_results has not been called yet on a constructed recorder
BeforeSave == pc \in {"constructed", "loop", "done", "returned_none"}

\* C24: the status of config.json is running from the construction of the
\* recorder until save_final_results is called and completed once it has
\* returned; it has no other value and never goes from completed to running
C24_StatusRunningThenCompleted ==
    /\ [](pc # "new" => config_status \in {"running", "completed"})
    /\ [](BeforeSave => config_status = "running")
    /\ [](pc = "returned" => config_status = "completed")
    /\ [][config_status = "completed" => config_status' = "completed"]_vars

\* the parts of C24 that hold whatever the writes do: the status is running
\* until save_final_results is called and a completed status stays
StatusRunningUntilSaveAndNeverBack ==
    /\ [](BeforeSave => config_status = "running")
    /\ [][config_status = "completed" => config_status' = "completed"]_vars


----------------------------------------------------------------------------
(* Properties of buying, of positions and of trade records *)

\* the BUY of the step is sized above the available cash (cash minus the
\* required reserve) while one share at least is affordable
PartialCase ==
    /\ TradeStep("BUY")
    /\ LET requested == calculate_position_size(current_state.total_value,
                                                ret'.price, ret'.confidence)
           available == AvailableCash(cash, current_state.total_value)
       IN /\ TotalCost(requested, ret'.price) * min_cash_reserve.den > available
          /\ TotalCost(1, ret'.price) * min_cash_reserve.den <= available

\* C25: a BUY whose full order costs more than cash minus the required
\* reserve while one share is affordable succeeds for exactly the largest
\* quantity q >= 1 with q x price x (1 + transactionCost + slippage) within
\* cash minus the reserve, and its record notes the partial execution
C25_PartialBuyTakesLargestAffordableQuantity ==
    [][PartialCase =>
          LET available == AvailableCash(cash, current_state.total_value)
              q == ret'.quantity
          IN /\ ret'.success
             /\ q >= 1
             /\ TotalCost(q, ret'.price) * min_cash_reserve.den <= available
             /\ TotalCost(q + 1, ret'.price) * min_cash_reserve.den > available
             /\ QuantityAdded(ret'.ticker) = q
             /\ ret'.error_message = "Partial execution"]_vars

\* a BUY was executed in part, for more than one share and fewer than sized
C25_Witness ==
    /\ call.executed
    /\ ret.action = "BUY"
    /\ ret.success
    /\ ret.error_message = "Partial execution"
    /\ ret.quantity > 1
    /\ ret.quantity < calculate_position_size(ret.portfolio_state_before.total_value,
                                              ret.price, ret.confidence)

\* C26: right after every successful BUY, full or partial, the cash left is
\* at least minCashReserve x totalValue, the total value being that of the
\* state before the trade; no sequence of BUYs spends the reserve
C26_BuyLeavesTheRequiredReserve ==
    [][(TradeStep("BUY") /\ ret'.success) =>
          /\ cash' * min_cash_reserve.den >=
                 current_state.total_value * min_cash_reserve.num
          /\ ret'.portfolio_state_before = current_state]_vars

\* three BUYs in a row have succeeded and the last left less than twice the
\* reserve in cash
C26_Witness ==
    /\ Len(trade_history) = 3
    /\ \A k \in 1..3 : trade_history[k].action = "BUY" /\ trade_history[k].success
    /\ call.executed
    /\ cash * min_cash_reserve.den >=
           ret.portfolio_state_before.total_value * min_cash_reserve.num
    /\ cash * min_cash_reserve.den <
           2 * ret.portfolio_state_before.total_value * min_cash_reserve.num

\* the step is a BUY or a SELL of ticker t
TradeStepOf(action, t) == TradeStep(action) /\ ret'.ticker = t

\* C27: a position enters the map in status OPEN and only by a BUY of an
\* unheld ticker, becomes PARTIAL only by a SELL that leaves shares, never
\* returns to OPEN, leaves the map only by a SELL of all its shares, is never
\* in the map with status CLOSED, and neither update_prices nor HOLD changes
\* its status or quantity
C27_PositionLifecycle ==
    [][\A t \in Tickers :
          /\ (t \notin DOMAIN positions /\ t \in DOMAIN positions') =>
                 /\ TradeStepOf("BUY", t)
                 /\ ret'.success
                 /\ positions'[t].status = "OPEN"
          /\ (t \in DOMAIN positions /\ t \in DOMAIN positions') =>
                 /\ positions[t].status = "PARTIAL" => positions'[t].status = "PARTIAL"
                 /\ positions'[t].status # positions[t].status =>
                        /\ TradeStepOf("SELL", t)
                        /\ positions'[t].status = "PARTIAL"
                        /\ positions'[t].quantity >= 1
                        /\ positions'[t].quantity = positions[t].quantity - ret'.quantity
          /\ (t \in DOMAIN positions /\ t \notin DOMAIN positions') =>
                 /\ TradeStepOf("SELL", t)
                 /\ ret'.quantity = positions[t].quantity
          /\ t \in DOMAIN positions' => positions'[t].status \in {"OPEN", "PARTIAL"}
          /\ (call'.op = "update_prices" \/ call'.action = "HOLD") =>
                 /\ (t \in DOMAIN positions) <=> (t \in DOMAIN positions')
                 /\ t \in DOMAIN positions =>
                        /\ positions'[t].status = positions[t].status
                        /\ positions'[t].quantity = positions[t].quantity]_vars

\* the price of a position that a SELL had left PARTIAL has been updated
C27_Witness ==
    /\ call.op = "update_prices"
    /\ \E t \in DOMAIN positions :
           /\ positions[t].status = "PARTIAL"
           /\ positions[t].current_price # trade_history[Len(trade_history)].price
    /\ Len(trade_history) = 2

\* C28: after any sequence of execute_trade calls the position map holds at
\* most max_positions tickers
C28_PositionsWithinMaxPositions ==
    Cardinality(DOMAIN positions) <= max_positions

\* C29: the transaction_cost and slippage of the record of a successful BUY
\* or SELL are the amounts charged, trade value x the configured rate, and
\* the total_cost of a BUY record is the cash debited,
\* portfolio_state_before.cash - portfolio_state_after.cash
C29_RecordCarriesTheChargedCosts ==
    (call.executed /\ ~ret.raised /\ ret.success /\ ret.action \in {"BUY", "SELL"}) =>
        /\ ret.transaction_cost =
               TransactionCost(ret.quantity, ret.price) * RecordUnitsPerTick
        /\ ret.slippage = Slippage(ret.quantity, ret.price) * RecordUnitsPerTick
        /\ ret.action = "BUY" =>
               ret.total_cost =
                   (ret.portfolio_state_before.cash - ret.portfolio_state_after.cash)
                       * RecordUnitsPerTick


----------------------------------------------------------------------------
(* Properties of the decision counters *)

\* C30: at every point of a run 0 <= successful_decisions <= total_decisions,
\* successful_decisions is the number of records in the orchestrator's trade
\* log, in the simulator's trade history and in the recorder's trade list,
\* and the success rate reported is successful_decisions / total_decisions,
\* or 0 when no decision was made
C30_SuccessfulDecisionsCountTheTrades ==
    /\ 0 <= successful_decisions
    /\ successful_decisions <= total_decisions
    /\ successful_decisions = Len(trade_log)
    /\ successful_decisions = Len(trade_history)
    /\ successful_decisions = Len(trades_data)
    /\ IF total_decisions = 0
       THEN success_rate.num = 0
       ELSE success_rate.num * total_decisions = successful_decisions * success_rate.den

\* a run has returned with trades made and with decisions that made none
C30_Witness ==
    /\ pc = "returned"
    /\ successful_decisions >= 2
    /\ total_decisions > successful_decisions
    /\ Len(trades_data) = successful_decisions

====
